---- MODULE Spec2Model ----
(***************************************************************************)
(* Model of functions/api/soils.js: the /api/soils request handler.        *)
(*                                                                         *)
(* Spec          one request through onRequest: method dispatch, geometry  *)
(*               conversion and the querySoilsPaged loop against a         *)
(*               nondeterministic upstream.  Upstream records carry no     *)
(*               attributes here; allFeatures is kept in run-length form,  *)
(*               one entry per non-empty page holding that page's record   *)
(*               count.                                                    *)
(* FairSpec      Spec with weak fairness of the handler's steps.           *)
(* SpecSummarize the part of onRequest after querySoilsPaged has returned, *)
(*               on concrete attribute records: conversion, deduplication, *)
(*               deriveFlags, aggregation and the payload.                 *)
(***************************************************************************)
EXTENDS Integers, Sequences, FiniteSets, TLC

VARIABLES
    pc,           \* position of the handler
    method,       \* context.request.method
    body,         \* the request body: [json, geometry]
    esriGeom,     \* result of toEsriPolygonFromGeoJSON
    offset,       \* querySoilsPaged: offset
    allFeatures,  \* querySoilsPaged: allFeatures (run-length form)
    calls,        \* number of upstream requests issued so far
    inflight,     \* the request awaiting its response: [resultOffset, resultRecordCount]
    timer,        \* fetchWithTimeout: the abort timer is pending
    arc,          \* the last parsed upstream response: [n, exceeded]
    received,     \* history: the non-empty pages received, in order
    response,     \* the Response returned by onRequest
    arcFeatures,  \* onRequest: the records returned by querySoilsPaged
    idx,          \* onRequest: number of gjFeatures already folded
    unique,       \* onRequest: the Map `unique`, as a sequence of [key, unit]
    agg           \* onRequest: the aggregate counters

vars == <<pc, method, body, esriGeom, offset, allFeatures, calls, inflight, timer,
          arc, received, response, arcFeatures, idx, unique, agg>>

pagingVars == <<esriGeom, offset, allFeatures, calls, inflight, timer, arc, received>>
foldVars == <<arcFeatures, idx, unique, agg>>

(***************************************************************************)
(* Program constants                                                       *)
(***************************************************************************)
MAX_FEATURES_TOTAL == 20000
PAGE_SIZE == 2000
SLICE_LIMIT == 50

(***************************************************************************)
(* Bounds of the model                                                     *)
(***************************************************************************)
\* Requests whose offsets are told apart; later requests share the last offset.
MaxCalls == 12
\* Non-empty pages of a size other than PAGE_SIZE that one request may receive.
MaxOdd == 1
\* Length of the exhaustively enumerated record lists.
MaxRecs == 2
\* Length of the long cyclic record lists is SLICE_LIMIT + BigExtra.
BigExtra == 3

Min(a, b) == IF a < b THEN a ELSE b

(***************************************************************************)
(* GeoJSON input and toEsriPolygonFromGeoJSON                              *)
(***************************************************************************)
\* A JavaScript value that is one of: undefined, null, or a GeoJSON-like
\* object [type, coordinates, geometry].  coordinates is [has, v] and
\* geometry is [kind, type, coordinates] so that all inputs have one shape;
\* coordinates are always written as a list of lists of points.
NoCoords == [has |-> FALSE, v |-> <<>>]
Coords(v) == [has |-> TRUE, v |-> v]
NoInner == [kind |-> "undefined", type |-> "", coordinates |-> NoCoords]
Inner(type, coordinates) == [kind |-> "object", type |-> type, coordinates |-> coordinates]
NullInner == [kind |-> "null", type |-> "", coordinates |-> NoCoords]
Obj(type, coordinates, geometry) ==
    [kind |-> "object", type |-> type, coordinates |-> coordinates, geometry |-> geometry]
Undefined == [kind |-> "undefined", type |-> "", coordinates |-> NoCoords, geometry |-> NoInner]
Null == [kind |-> "null", type |-> "", coordinates |-> NoCoords, geometry |-> NoInner]

Outer == <<<<0, 0>>, <<4, 0>>, <<4, 4>>, <<0, 4>>, <<0, 0>>>>
Hole == <<<<1, 1>>, <<1, 2>>, <<2, 2>>, <<1, 1>>>>
Other == <<<<5, 5>>, <<6, 5>>, <<6, 6>>, <<5, 5>>>>
PolyRings == <<Outer, Hole>>
MultiRings == <<<<Other>>, <<Outer, Hole>>>>

ValidGeometries ==
    { Obj("Polygon", Coords(PolyRings), NoInner),
      Obj("MultiPolygon", Coords(MultiRings), NoInner),
      Obj("Feature", NoCoords, Inner("Polygon", Coords(PolyRings))) }

InvalidGeometries ==
    { Undefined, Null,
      Obj("", Coords(PolyRings), NoInner),
      Obj("Point", Coords(<<<<<<1, 2>>>>>>), NoInner),
      Obj("LineString", Coords(<<<<<<0, 0>>, <<1, 1>>>>>>), NoInner),
      Obj("Polygon", NoCoords, NoInner),
      Obj("MultiPolygon", NoCoords, NoInner),
      Obj("MultiPolygon", Coords(<<>>), NoInner),
      Obj("Feature", NoCoords, NullInner),
      Obj("Feature", NoCoords, NoInner),
      Obj("Feature", NoCoords, Inner("Point", Coords(<<<<<<1, 2>>>>>>))),
      Obj("Feature", Coords(PolyRings), Inner("", NoCoords)) }

GeometryInputs == ValidGeometries \cup InvalidGeometries

Thrown(message) == [ok |-> FALSE, message |-> message, rings |-> <<>>, wkid |-> 0]

\* g = input.type === "Feature" ? input.geometry : input
Resolve(input) ==
    IF input.type = "Feature" THEN input.geometry
    ELSE [kind |-> "object", type |-> input.type, coordinates |-> input.coordinates]

\* variant: a MultiPolygon contributes the rings of its last member
RingsOfLastMember(g) ==
    IF g.type = "MultiPolygon"
    THEN IF Len(g.coordinates.v) >= 1
         THEN Coords(g.coordinates.v[Len(g.coordinates.v)])
         ELSE NoCoords
    ELSE IF g.type = "Polygon" THEN g.coordinates
    ELSE NoCoords

\* rings, after the two `if`s on g.type; has = FALSE is null or undefined
RingsOf(g) ==
    IF g.type = "MultiPolygon"
    THEN IF Len(g.coordinates.v) >= 1 THEN Coords(g.coordinates.v[1]) ELSE NoCoords
    ELSE IF g.type = "Polygon" THEN g.coordinates
    ELSE NoCoords

toEsriPolygonFromGeoJSON(input) ==
    IF input.kind # "object" THEN Thrown("Missing geometry")
    ELSE LET g == Resolve(input) IN
         IF g.kind # "object"
         THEN Thrown("Cannot read properties of undefined")       \* g.type on null/undefined
         ELSE IF g.type = "MultiPolygon" /\ ~g.coordinates.has
         THEN Thrown("Cannot read properties of undefined")       \* g.coordinates[0]
         ELSE IF ~RingsOf(g).has
         THEN Thrown("Geometry must be Polygon or MultiPolygon")
         ELSE [ok |-> TRUE, message |-> "", rings |-> RingsOf(g).v, wkid |-> 4326]

NoGeom == [ok |-> FALSE, message |-> "", rings |-> <<>>, wkid |-> 0]

(***************************************************************************)
(* Responses of onRequest                                                  *)
(***************************************************************************)
NoResponse == [status |-> 0, type |-> "", text |-> "", count |-> 0, features |-> <<>>]
HealthResponse ==
    [status |-> 200, type |-> "application/json", text |-> "ok", count |-> 0, features |-> <<>>]
UsePostResponse ==
    [status |-> 405, type |-> "text/plain;charset=UTF-8", text |-> "Use POST", count |-> 0, features |-> <<>>]
\* the catch block: `Server error: ${e.message}`, status 500, text/plain
ServerError(message) ==
    [status |-> 500, type |-> "text/plain;charset=UTF-8",
     text |-> "Server error: " \o message, count |-> 0, features |-> <<>>]

ABORTED == "The operation was aborted"
UPSTREAM_FAILED == "Soils upstream failed (503): unavailable"
TOO_LARGE == "Soils result too large (>20000 features). Reduce AOI size or implement geometry simplification."
BAD_JSON == "Unexpected token in JSON"
BODY_ERROR == "body stream error"
NOT_A_FUNCTION == "toUpperCase is not a function"

(***************************************************************************)
(* querySoilsPaged                                                         *)
(***************************************************************************)
RECURSIVE Sum(_)
Sum(s) == IF s = <<>> THEN 0 ELSE s[1] + Sum(Tail(s))

\* allFeatures.length
Length(features) == Sum(features)

\* variant: the page replaces what was accumulated
ConcatReplacing(features, page) == IF page = 0 THEN features ELSE <<page>>

\* allFeatures.concat(page), page given by its record count
Concat(features, page) == IF page = 0 THEN features ELSE Append(features, page)

\* Boolean(arc?.exceededTransferLimit)
Exceeded(a) == a.exceeded

\* page.length === PAGE_SIZE
GotFullPage(page) == page = PAGE_SIZE

\* the loop's exit test: if (!exceeded && !gotFullPage) break
Break(a) == ~Exceeded(a) /\ ~GotFullPage(a.n)

\* variant: the cap is noticed one page late
OverCapLate(features) == Length(features) > MAX_FEATURES_TOTAL + PAGE_SIZE

\* allFeatures.length > MAX_FEATURES_TOTAL
OverCap(features) == Length(features) > MAX_FEATURES_TOTAL

\* offset += PAGE_SIZE; offsets from MaxCalls - 1 pages on are not told apart
MaxOffset == (MaxCalls - 1) * PAGE_SIZE
NextOffset(o) == Min(o + PAGE_SIZE, MaxOffset)

NoRequest == [resultOffset |-> -1, resultRecordCount |-> 0]
NoArc == [n |-> 0, exceeded |-> FALSE]

\* Page sizes the upstream answers with: empty, short, full, and more than asked for.
PageSizes == {0, 1500, PAGE_SIZE, PAGE_SIZE + 1}
OddPages(features) == Cardinality({i \in 1..Len(features) : features[i] # PAGE_SIZE})

Methods == {"GET", "POST", "PUT"}
Bodies == {[json |-> TRUE, geometry |-> g] : g \in GeometryInputs}
              \cup {[json |-> FALSE, geometry |-> Undefined]}

Init ==
    /\ pc = "request"
    /\ method \in Methods
    /\ body \in IF method = "POST" THEN Bodies ELSE {[json |-> FALSE, geometry |-> Undefined]}
    /\ esriGeom = NoGeom
    /\ offset = 0
    /\ allFeatures = <<>>
    /\ calls = 0
    /\ inflight = NoRequest
    /\ timer = FALSE
    /\ arc = NoArc
    /\ received = <<>>
    /\ response = NoResponse
    /\ arcFeatures = <<>>
    /\ idx = 0
    /\ unique = <<>>
    /\ agg = [poorDrainage |-> 0, hydricLikely |-> 0, floodingRisk |-> 0, pondingRisk |-> 0]

\* return new Response(...): the handler is finished
Return(r) ==
    /\ response' = r
    /\ pc' = "done"

\* GET: health check
HealthCheck ==
    /\ pc = "request"
    /\ method = "GET"
    /\ Return(HealthResponse)
    /\ UNCHANGED <<method, body, pagingVars, foldVars>>

\* any method other than GET and POST
MethodNotAllowed ==
    /\ pc = "request"
    /\ method \notin {"GET", "POST"}
    /\ Return(UsePostResponse)
    /\ UNCHANGED <<method, body, pagingVars, foldVars>>

\* POST: parse the body, convert the geometry, enter querySoilsPaged
ReadGeometry ==
    /\ pc = "request"
    /\ method = "POST"
    /\ IF ~body.json
       THEN Return(ServerError(BAD_JSON)) /\ UNCHANGED esriGeom
       ELSE LET g == toEsriPolygonFromGeoJSON(body.geometry) IN
            IF g.ok
            THEN esriGeom' = g /\ pc' = "fetch" /\ UNCHANGED response
            ELSE Return(ServerError(g.message)) /\ UNCHANGED esriGeom
    /\ UNCHANGED <<method, body, offset, allFeatures, calls, inflight, timer, arc, received, foldVars>>

\* top of the loop: build the URL and call fetchWithTimeout, which arms the
\* abort timer and starts the fetch
IssueRequest ==
    /\ pc = "fetch"
    /\ inflight' = [resultOffset |-> offset, resultRecordCount |-> PAGE_SIZE]
    /\ calls' = Min(calls + 1, MaxCalls)
    /\ timer' = TRUE
    /\ pc' = "await"
    /\ UNCHANGED <<method, body, esriGeom, offset, allFeatures, arc, received, response, foldVars>>

\* the timer fires before the fetch resolves: controller.abort() rejects it
UpstreamTimeout ==
    /\ pc = "await"
    /\ timer
    /\ timer' = FALSE
    /\ inflight' = NoRequest
    /\ Return(ServerError(ABORTED))
    /\ UNCHANGED <<method, body, esriGeom, offset, allFeatures, calls, arc, received, foldVars>>

\* status and headers arrive: the fetch resolves, `finally` clears the timer;
\* resp.ok sends the handler to resp.json(), !resp.ok to resp.text()
UpstreamHeaders ==
    /\ pc = "await"
    /\ timer' = FALSE
    /\ \E ok \in BOOLEAN : pc' = IF ok THEN "json" ELSE "text"
    /\ UNCHANGED <<method, body, esriGeom, offset, allFeatures, calls, inflight, arc,
                   received, response, foldVars>>

\* resp.json() resolves with a body of n features
UpstreamPage ==
    /\ pc = "json"
    /\ \E n \in PageSizes, e \in BOOLEAN :
          /\ n \in {0, PAGE_SIZE} \/ OddPages(received) < MaxOdd
          /\ arc' = [n |-> n, exceeded |-> e]
          /\ received' = IF n > 0 THEN Append(received, n) ELSE received
    /\ inflight' = NoRequest
    /\ pc' = "page"
    /\ UNCHANGED <<method, body, esriGeom, offset, allFeatures, calls, timer, response, foldVars>>

\* resp.json() rejects: the body is not JSON
UpstreamBadJson ==
    /\ pc = "json"
    /\ inflight' = NoRequest
    /\ Return(ServerError(BAD_JSON))
    /\ UNCHANGED <<method, body, esriGeom, offset, allFeatures, calls, timer, arc, received, foldVars>>

\* resp.text() resolves: throw `Soils upstream failed (status): text`
UpstreamFails ==
    /\ pc = "text"
    /\ inflight' = NoRequest
    /\ Return(ServerError(UPSTREAM_FAILED))
    /\ UNCHANGED <<method, body, esriGeom, offset, allFeatures, calls, timer, arc, received, foldVars>>

\* resp.text() rejects: the body stream of the non-success answer fails
UpstreamTextFails ==
    /\ pc = "text"
    /\ inflight' = NoRequest
    /\ Return(ServerError(BODY_ERROR))
    /\ UNCHANGED <<method, body, esriGeom, offset, allFeatures, calls, timer, arc, received, foldVars>>

\* concat, the cap check, and the exit test
ProcessPage ==
    /\ pc = "page"
    /\ allFeatures' = Concat(allFeatures, arc.n)
    /\ IF OverCap(allFeatures')
       THEN Return(ServerError(TOO_LARGE)) /\ UNCHANGED offset
       ELSE IF Break(arc)
       THEN pc' = "returned" /\ UNCHANGED <<offset, response>>
       ELSE offset' = NextOffset(offset) /\ pc' = "fetch" /\ UNCHANGED response
    /\ UNCHANGED <<method, body, esriGeom, calls, inflight, timer, arc, received, foldVars>>

\* querySoilsPaged has returned; the records are converted and summarised
\* (SpecSummarize) and the payload is returned
Respond ==
    /\ pc = "returned"
    /\ Return([status |-> 200, type |-> "application/json", text |-> "soils",
               count |-> Length(allFeatures), features |-> allFeatures])
    /\ UNCHANGED <<method, body, pagingVars, foldVars>>

\* deriveFlags throws on one of the records (see DeriveFlags)
SummaryFails ==
    /\ pc = "returned"
    /\ allFeatures # <<>>
    /\ Return(ServerError(NOT_A_FUNCTION))
    /\ UNCHANGED <<method, body, pagingVars, foldVars>>

Next ==
    \/ HealthCheck
    \/ MethodNotAllowed
    \/ ReadGeometry
    \/ IssueRequest
    \/ UpstreamTimeout
    \/ UpstreamHeaders
    \/ UpstreamPage
    \/ UpstreamBadJson
    \/ UpstreamFails
    \/ UpstreamTextFails
    \/ ProcessPage
    \/ Respond
    \/ SummaryFails

Spec == Init /\ [][Next]_vars

FairSpec == Spec /\ WF_vars(Next)


(***************************************************************************)
(* JavaScript values of attribute fields                                   *)
(***************************************************************************)
JsUndefined == [t |-> "undefined", n |-> 0, s |-> ""]
JsNull == [t |-> "null", n |-> 0, s |-> ""]
Num(n) == [t |-> "number", n |-> n, s |-> ""]
Str(s) == [t |-> "string", n |-> 0, s |-> s]

Nullish(v) == v.t \in {"undefined", "null"}
Truthy(v) == (v.t = "string" /\ v.s # "") \/ (v.t = "number" /\ v.n # 0)

\* v ?? null
OrNull(v) == IF Nullish(v) THEN JsNull ELSE v
\* v || ""
OrEmpty(v) == IF Truthy(v) THEN v ELSE Str("")

Digit(d) == SubSeq("0123456789", d + 1, d + 1)
RECURSIVE NatToString(_)
NatToString(n) == IF n < 10 THEN Digit(n) ELSE NatToString(n \div 10) \o Digit(n % 10)

\* String(v) of a value that is not nullish, as .toString() and `${v}` compute it
JsString(v) == IF v.t = "number" THEN NatToString(v.n) ELSE v.s

LowerChars == "abcdefghijklmnopqrstuvwxyz"
UpperChars == "ABCDEFGHIJKLMNOPQRSTUVWXYZ"
Char(s, i) == SubSeq(s, i, i)
MapChar(c, from, to) ==
    IF \E i \in 1..Len(from) : Char(from, i) = c
    THEN Char(to, CHOOSE i \in 1..Len(from) : Char(from, i) = c)
    ELSE c
RECURSIVE MapString(_, _, _)
MapString(s, from, to) ==
    IF s = "" THEN ""
    ELSE MapChar(Char(s, 1), from, to) \o MapString(SubSeq(s, 2, Len(s)), from, to)

\* String.prototype.toUpperCase / toLowerCase
ToUpperCase(s) == MapString(s, LowerChars, UpperChars)
ToLowerCase(s) == MapString(s, UpperChars, LowerChars)

\* String.prototype.includes
Includes(s, w) == \E i \in 1..(Len(s) - Len(w) + 1) : SubSeq(s, i, i + Len(w) - 1) = w

(***************************************************************************)
(* deriveFlags                                                             *)
(***************************************************************************)
NoFlags ==
    [poorDrainage |-> FALSE, hydricLikely |-> FALSE, floodingRisk |-> FALSE, pondingRisk |-> FALSE]

PoorDrainage(dr) ==
    Includes(dr, "POORLY") \/ Includes(dr, "VERY POORLY") \/ Includes(dr, "SOMEWHAT POORLY")

HydricLikely(hydric) ==
    \/ hydric = "yes"
    \/ hydric = "y"
    \/ Includes(hydric, "hydric")
    \/ Includes(hydric, "%")
    \/ Includes(hydric, "likely")

FloodingRisk(flod) ==
    Includes(flod, "FREQUENT") \/ Includes(flod, "OCCASIONAL") \/ Includes(flod, "COMMON")

\* pond is the lower-cased text; the literals are upper case as in the source
PondingRisk(pond) ==
    Includes(pond, "FREQUENT") \/ Includes(pond, "OCCASIONAL") \/ Includes(pond, "COMMON")

\* (v || "").toUpperCase() is a TypeError unless v || "" is a string
UpperCallThrows(v) == OrEmpty(v).t # "string"

\* [threw, flags]: threw = TRUE when a TypeError is raised
deriveFlags(props) ==
    IF UpperCallThrows(props.drclassdcd) \/ UpperCallThrows(props.flodfreqdcd)
    THEN [threw |-> TRUE, flags |-> NoFlags]
    ELSE LET dr == ToUpperCase(OrEmpty(props.drclassdcd).s)
             hydric == ToLowerCase(JsString(OrEmpty(props.hydclprs)))
             flod == ToUpperCase(OrEmpty(props.flodfreqdcd).s)
             pond == ToLowerCase(JsString(OrEmpty(props.pondfreqprs)))
         IN [threw |-> FALSE,
             flags |-> [poorDrainage |-> PoorDrainage(dr),
                        hydricLikely |-> HydricLikely(hydric),
                        floodingRisk |-> FloodingRisk(flod),
                        pondingRisk |-> PondingRisk(pond)]]


(***************************************************************************)
(* Upstream records with attributes                                        *)
(***************************************************************************)
NoAttributes ==
    [mukey |-> JsUndefined, musym |-> JsUndefined, muname |-> JsUndefined,
     drclassdcd |-> JsUndefined, hydgrpdcd |-> JsUndefined, hydclprs |-> JsUndefined,
     flodfreqdcd |-> JsUndefined, pondfreqprs |-> JsUndefined,
     wtdepannmin |-> JsUndefined, wtdepaprjunmin |-> JsUndefined, wss_link |-> JsUndefined]

\* an ArcGIS feature: attributes may be missing altogether
Feature(attributes) == [has |-> TRUE, attributes |-> attributes]
BareFeature == [has |-> FALSE, attributes |-> NoAttributes]

Unit3(musym, muname, mukey) ==
    [NoAttributes EXCEPT !.musym = musym, !.muname = muname, !.mukey = mukey]
Soil(musym, muname, mukey, dr, hydric, flod, pond) ==
    [Unit3(musym, muname, mukey) EXCEPT !.drclassdcd = dr, !.hydclprs = hydric,
                                         !.flodfreqdcd = flod, !.pondfreqprs = pond]

RawFeatures ==
    { Feature([Soil(Str("CrA"), Str("Crosby silt loam"), Str("1"),
                    Str("Somewhat poorly drained"), Str("Yes"), Str("None"), Str("Frequent"))
                 EXCEPT !.hydgrpdcd = Str("C/D"), !.wtdepannmin = Num(15)]),
      \* the same identity as the record above, other attributes
      Feature([Soil(Str("CrA"), Str("Crosby silt loam"), Str("1"),
                    Str("Well drained"), Str("No"), Str("Frequent"), Str("None"))
                 EXCEPT !.hydgrpdcd = Str("B"), !.wss_link = Str("w")]),
      \* null against the empty string
      Feature(Soil(JsNull, Str("Water"), Str("2"),
                   JsNull, Str("85%"), Str("OCCASIONAL"), Str("occasional"))),
      Feature(Soil(Str(""), Str("Water"), Str("2"),
                   Str("Very poorly drained"), JsNull, JsNull, JsNull)),
      \* the separator inside a value
      Feature(Soil(Str("a|b"), Str("c"), Str("3"),
                   Str(""), Str("Unlikely"), Str("Rare"), Str("COMMON"))),
      Feature(Soil(Str("a"), Str("b|c"), Str("3"),
                   Str("POORLY DRAINED"), Str("y"), Str("common"), Str("Rare"))),
      \* plain triples that differ only in where the fields are cut
      Feature(Unit3(Str("ab"), Str("c"), Str("4"))),
      Feature(Unit3(Str("a"), Str("bc"), Str("4"))),
      \* a number against its text
      Feature(Unit3(Str("Mx"), Str("Miami"), Num(5))),
      Feature(Soil(Str("Mx"), Str("Miami"), Str("5"),
                   Num(0), Num(1), Num(0), Num(7))),
      \* numeric drainage class and flood frequency
      Feature(Soil(Str("Nn"), Str("Numeric"), Str("6"),
                   Num(3), Str("No"), Str("None"), Str("None"))),
      Feature(Soil(Str("Nf"), Str("Numeric"), Str("7"),
                   Str("Well drained"), Str("hydric"), Num(2), Str("Occasional ponding"))),
      BareFeature }

\* record i of a list cycling through k identities; the other attributes follow i
CyclicFeature(i, k) ==
    Feature([Soil(Str("S"), Str("Soil"), Num(i % k),
                  IF i % 2 = 0 THEN Str("Poorly drained") ELSE Str("Well drained"),
                  IF i % 3 = 0 THEN Str("Yes") ELSE JsNull,
                  IF i % 5 = 0 THEN Str("Frequent") ELSE Str("None"),
                  IF i % 7 = 0 THEN Str("Frequent") ELSE JsUndefined)
               EXCEPT !.hydgrpdcd = Num(i)])
BigLen == SLICE_LIMIT + BigExtra
CyclicList(k) == [i \in 1..BigLen |-> CyclicFeature(i, k)]

RECURSIVE ListsUpTo(_)
ListsUpTo(n) ==
    IF n = 0 THEN {<<>>}
    ELSE LET shorter == ListsUpTo(n - 1)
         IN shorter \cup {Append(l, f) : l \in {x \in shorter : Len(x) = n - 1}, f \in RawFeatures}

FeatureLists ==
    ListsUpTo(MaxRecs) \cup {CyclicList(k) : k \in (SLICE_LIMIT - 1)..BigLen}

(***************************************************************************)
(* onRequest after querySoilsPaged: conversion, deduplication, summary     *)
(***************************************************************************)
\* arcgisToGeoJSON(f): properties are the attributes, or null without attributes
arcgisToGeoJSON(f) == [type |-> "Feature", hasProperties |-> f.has, properties |-> f.attributes]

\* arcFeatures.map((f) => arcgisToGeoJSON(f))
GjFeatures(features) == [i \in 1..Len(features) |-> arcgisToGeoJSON(features[i])]

\* ft.properties || {}
Properties(ft) == IF ft.hasProperties THEN ft.properties ELSE NoAttributes

\* v ?? "" inside the template literal
KeyPart(v) == IF Nullish(v) THEN "" ELSE JsString(v)

\* variant: the parts are joined without the separator
KeyNoSeparator(p) == KeyPart(p.musym) \o KeyPart(p.muname) \o KeyPart(p.mukey)

\* `${p.musym ?? ""}|${p.muname ?? ""}|${p.mukey ?? ""}`
Key(p) == KeyPart(p.musym) \o "|" \o KeyPart(p.muname) \o "|" \o KeyPart(p.mukey)

\* variant: every record is taken for a new unit
MapHasNever(map, key) == FALSE

\* unique.has(key)
MapHas(map, key) == \E i \in 1..Len(map) : map[i].key = key

\* the object stored by unique.set(key, {...})
MakeUnit(p, flags) ==
    [mukey |-> OrNull(p.mukey), musym |-> OrNull(p.musym), muname |-> OrNull(p.muname),
     drclassdcd |-> OrNull(p.drclassdcd), hydgrpdcd |-> OrNull(p.hydgrpdcd),
     hydclprs |-> OrNull(p.hydclprs), flodfreqdcd |-> OrNull(p.flodfreqdcd),
     pondfreqprs |-> OrNull(p.pondfreqprs), wtdepannmin |-> OrNull(p.wtdepannmin),
     wtdepaprjunmin |-> OrNull(p.wtdepaprjunmin), wss_link |-> OrNull(p.wss_link),
     flags |-> flags]

\* unique.set(key, unit) for a key that is not in the map
MapSet(map, key, unit) == Append(map, [key |-> key, unit |-> unit])

\* Array.from(unique.values())
MapValues(map) == [i \in 1..Len(map) |-> map[i].unit]

\* the second loop: one increment per unit whose flag is set
CountFlag(units, flag) == Cardinality({i \in 1..Len(units) : units[i].flags[flag]})
Aggregate(units) ==
    [poorDrainage |-> CountFlag(units, "poorDrainage"),
     hydricLikely |-> CountFlag(units, "hydricLikely"),
     floodingRisk |-> CountFlag(units, "floodingRisk"),
     pondingRisk |-> CountFlag(units, "pondingRisk")]

\* variant: the list is not truncated
SliceNone(units) == units

\* .slice(0, 50)
Slice(units) == SubSeq(units, 1, Min(SLICE_LIMIT, Len(units)))

Payload(gj, map, counters) ==
    [status |-> 200, type |-> "application/json", text |-> "soils",
     count |-> Len(gj), features |-> gj,
     distinctMapUnits |-> Len(map),
     aggregateFlagsByMapUnit |-> counters,
     uniqueMapUnits |-> Slice(MapValues(map))]

InitSummarize ==
    /\ pc = "fold"
    /\ method = "POST"
    /\ body = [json |-> TRUE, geometry |-> Obj("Polygon", Coords(PolyRings), NoInner)]
    /\ esriGeom = toEsriPolygonFromGeoJSON(body.geometry)
    /\ offset = 0
    /\ allFeatures = <<>>
    /\ calls = 1
    /\ inflight = NoRequest
    /\ timer = FALSE
    /\ arc = NoArc
    /\ received = <<>>
    /\ response = NoResponse
    /\ arcFeatures \in FeatureLists
    /\ idx = 0
    /\ unique = <<>>
    /\ agg = [poorDrainage |-> 0, hydricLikely |-> 0, floodingRisk |-> 0, pondingRisk |-> 0]

\* one iteration of `for (const ft of gjFeatures)`
FoldRecord ==
    /\ pc = "fold"
    /\ idx < Len(arcFeatures)
    /\ LET p == Properties(GjFeatures(arcFeatures)[idx + 1])
           key == Key(p)
           derived == deriveFlags(p)
       IN IF MapHas(unique, key)
          THEN UNCHANGED <<unique, response, pc>>
          ELSE IF derived.threw
          THEN Return(ServerError(NOT_A_FUNCTION)) /\ UNCHANGED unique
          ELSE unique' = MapSet(unique, key, MakeUnit(p, derived.flags))
               /\ UNCHANGED <<response, pc>>
    /\ idx' = idx + 1
    /\ UNCHANGED <<method, body, pagingVars, arcFeatures, agg>>

\* the aggregate loop, the payload and the Response
Summarise ==
    /\ pc = "fold"
    /\ idx = Len(arcFeatures)
    /\ agg' = Aggregate(MapValues(unique))
    /\ Return(Payload(GjFeatures(arcFeatures), unique, agg'))
    /\ UNCHANGED <<method, body, pagingVars, arcFeatures, idx, unique>>

NextSummarize ==
    \/ FoldRecord
    \/ Summarise

SpecSummarize == InitSummarize /\ [][NextSummarize]_vars


(***************************************************************************)
(* Properties of Spec and FairSpec                                         *)
(***************************************************************************)
\* C1: after a page is accumulated (and the cap is not exceeded) paging stops
\* only when the flag is not set and the page has fewer than PAGE_SIZE
\* records; otherwise the loop goes on to the next offset.  This is the
\* statement as given, for every page size the upstream can return.
C1_StopsOnlyOnShortUnflaggedPage ==
    [][(pc = "page" /\ pc' # "done") =>
          IF ~arc.exceeded /\ arc.n < PAGE_SIZE
          THEN pc' = "returned" /\ offset' = offset
          ELSE pc' = "fetch" /\ (calls < MaxCalls => offset' = offset + PAGE_SIZE)]_vars

\* C2: the cap is checked right after each concatenation: once the
\* accumulated count exceeds MAX_FEATURES_TOTAL the call has failed with the
\* 'result too large' error and no request is in flight or will be issued; no
\* request is issued above the cap and a returned sequence has at most
\* MAX_FEATURES_TOTAL records.
C2_CapCheckedAfterEachPage ==
    /\ Length(allFeatures) > MAX_FEATURES_TOTAL =>
           pc = "done" /\ response = ServerError(TOO_LARGE) /\ inflight = NoRequest
    /\ Sum(received) > MAX_FEATURES_TOTAL => pc \in {"page", "done"}
    /\ pc \in {"fetch", "await", "json", "text", "returned"} => Length(allFeatures) <= MAX_FEATURES_TOTAL
    /\ (method = "POST" /\ response.status = 200) => response.count <= MAX_FEATURES_TOTAL

\* C2 witness: eleven full pages cross the cap and the call has failed
C2_Witness ==
    /\ pc = "done"
    /\ calls = 11
    /\ Length(allFeatures) = 11 * PAGE_SIZE
    /\ response = ServerError(TOO_LARGE)

C3_State ==
    /\ (pc = "done" /\ method = "POST" /\ response.status = 200) =>
           /\ response.features = received
           /\ response.count = Sum(received)
           /\ calls < MaxCalls => offset = (calls - 1) * PAGE_SIZE
    /\ inflight # NoRequest =>
           /\ inflight.resultRecordCount = PAGE_SIZE
           /\ calls < MaxCalls => inflight.resultOffset = (calls - 1) * PAGE_SIZE
    /\ response.status = 500 =>
           /\ pc = "done"
           /\ inflight = NoRequest
           /\ response.features = <<>>
           /\ response.count = 0
           /\ response.type = "text/plain;charset=UTF-8"
           /\ SubSeq(response.text, 1, 14) = "Server error: "

C3_Step ==
    \* every request is a new one, counted once
    /\ (inflight' # NoRequest /\ inflight' # inflight) =>
           inflight = NoRequest /\ calls' = Min(calls + 1, MaxCalls)
    \* a request ends with a page, or with the error response and no other request
    /\ (pc \in {"await", "json", "text"} /\ pc' \notin {"json", "text", "page"}) =>
           pc' = "done" /\ response'.status = 500 /\ calls' = calls /\ inflight' = NoRequest
    \* a non-success status ends with the error response
    /\ pc = "text" => (pc' = "done" /\ response'.status = 500 /\ calls' = calls)
    \* the abort timer is pending only while the fetch is
    /\ timer' => pc' = "await"
    \* exceeding the cap ends with the error response
    /\ (pc = "page" /\ Sum(received) > MAX_FEATURES_TOTAL) =>
           pc' = "done" /\ response'.status = 500 /\ calls' = calls
    /\ pc = "done" => (pc' = "done" /\ calls' = calls /\ response' = response)

\* C3: a POST is all-or-nothing.  On success the records are the in-order
\* concatenation of the pages received, the k-th request having been issued
\* with resultOffset k * PAGE_SIZE, one request per offset; a failed or timed
\* out page request or an exceeded cap gives the status-500 'Server error: '
\* response with no records, and no request follows it.
C3_AllOrNothing == [](C3_State) /\ [][C3_Step]_vars

\* C3 witness: pages of 2000, 2000 and 1500 records returned from three calls
C3_Witness ==
    /\ pc = "done"
    /\ response.status = 200
    /\ response.features = <<2000, 2000, 1500>>
    /\ response.count = 5500
    /\ calls = 3

\* C4: whatever the upstream answers, querySoilsPaged issues finitely many
\* requests and the handler terminates with a response.
C4_Terminates == <>(pc = "done")

\* the resolved geometry of an input object, as the claim describes it
C9_Resolved(input) ==
    IF input.type = "Feature" THEN input.geometry
    ELSE [kind |-> input.kind, type |-> input.type, coordinates |-> input.coordinates]
C9_MustFail(input) ==
    \/ input.kind # "object"
    \/ C9_Resolved(input).kind # "object"
    \/ C9_Resolved(input).type \notin {"Polygon", "MultiPolygon"}
    \/ ~C9_Resolved(input).coordinates.has
    \/ C9_Resolved(input).type = "MultiPolygon" /\ C9_Resolved(input).coordinates.v = <<>>
C9_Rings(input) ==
    IF C9_Resolved(input).type = "Polygon"
    THEN C9_Resolved(input).coordinates.v
    ELSE Head(C9_Resolved(input).coordinates.v)

\* C9: once the geometry of a POST has been read, either the input is absent,
\* not a (Multi)Polygon or without a ring list, and the handler has answered
\* 500 without any upstream request; or the query geometry has wkid 4326 and
\* the rings of the Polygon, unchanged, or of the first member of the
\* MultiPolygon.
C9_GeometryConversion ==
    (method = "POST" /\ body.json /\ pc # "request") =>
        IF C9_MustFail(body.geometry)
        THEN /\ pc = "done"
             /\ response.status = 500
             /\ SubSeq(response.text, 1, 14) = "Server error: "
             /\ calls = 0
             /\ ~esriGeom.ok
        ELSE /\ esriGeom.ok
             /\ esriGeom.wkid = 4326
             /\ esriGeom.rings = C9_Rings(body.geometry)

\* C9 witness: a LineString has been answered with the error response
C9_Witness ==
    /\ pc = "done"
    /\ body.geometry.type = "LineString"
    /\ response = ServerError("Geometry must be Polygon or MultiPolygon")
    /\ calls = 0


(***************************************************************************)
(* Properties of SpecSummarize                                             *)
(***************************************************************************)
\* the properties of raw record i, and its identity triple as received
Props(i) == Properties(arcgisToGeoJSON(arcFeatures[i]))
Triple(i) == <<Props(i).musym, Props(i).muname, Props(i).mukey>>
Succeeded == pc = "done" /\ response.status = 200

\* record i is the first of the list with its key
IsFirst(i) == \A j \in 1..(i - 1) : Key(Props(j)) # Key(Props(i))
FirstWith(key) == CHOOSE i \in 1..Len(arcFeatures) : Key(Props(i)) = key /\ IsFirst(i)
\* the units of the map holding record i
Holders(i) == {k \in 1..Len(unique) : unique[k].key = Key(Props(i))}
\* the identities whose first record has the flag
Flagged(flag) ==
    {Key(Props(i)) : i \in {j \in 1..Len(arcFeatures) :
                               IsFirst(j) /\ deriveFlags(Props(j)).flags[flag]}}
FlagNames == {"poorDrainage", "hydricLikely", "floodingRisk", "pondingRisk"}

\* C5: in a successful response every raw record is held by exactly one
\* unit, records with the same triple by the same one; each counter is the
\* number of distinct units whose flag is true, and
\* counter <= distinctMapUnits <= count.
C5_CountersPerDistinctUnit ==
    Succeeded =>
        /\ \A i \in 1..Len(arcFeatures) : Cardinality(Holders(i)) = 1
        /\ \A i, j \in 1..Len(arcFeatures) : Triple(i) = Triple(j) => Holders(i) = Holders(j)
        /\ response.distinctMapUnits <= Cardinality({Triple(i) : i \in 1..Len(arcFeatures)})
        /\ response.count = Len(arcFeatures)
        /\ \A f \in FlagNames :
              /\ response.aggregateFlagsByMapUnit[f] = Cardinality(Flagged(f))
              /\ response.aggregateFlagsByMapUnit[f] <= response.distinctMapUnits
        /\ response.distinctMapUnits <= response.count

\* C5 witness: two records with one triple are one flagged unit, counted once
C5_Witness ==
    /\ Succeeded
    /\ response.count = 2
    /\ response.distinctMapUnits = 1
    /\ Triple(1) = Triple(2)
    /\ unique[1].unit.flags.poorDrainage
    /\ response.aggregateFlagsByMapUnit.poorDrainage = 1

\* the keys of a list of records in first-seen order
RECURSIVE FirstSeen(_, _)
FirstSeen(i, seen) ==
    IF i > Len(arcFeatures) THEN seen
    ELSE IF \E k \in 1..Len(seen) : seen[k] = Key(Props(i))
    THEN FirstSeen(i + 1, seen)
    ELSE FirstSeen(i + 1, Append(seen, Key(Props(i))))

\* C6: the unit stored for a key carries the attributes and flags of the
\* first raw record with that key, whatever follows; uniqueMapUnits is the
\* first min(50, distinctMapUnits) units in first-seen order, and
\* distinctMapUnits is the full number of distinct units.
C6_FirstOccurrenceWins ==
    LET seen == FirstSeen(1, <<>>) IN
    /\ \A k \in 1..Len(unique) :
          /\ unique[k].key = seen[k]
          /\ LET p == Props(FirstWith(unique[k].key))
             IN unique[k].unit = MakeUnit(p, deriveFlags(p).flags)
    /\ Succeeded =>
          /\ response.distinctMapUnits = Len(seen)
          /\ Len(response.uniqueMapUnits) = Min(50, response.distinctMapUnits)
          /\ Len(response.uniqueMapUnits) <= 50
          /\ \A k \in 1..Len(response.uniqueMapUnits) :
                response.uniqueMapUnits[k] = unique[k].unit

\* C6 witness: more than 50 distinct units, 50 of them listed
C6_Witness ==
    /\ Succeeded
    /\ response.distinctMapUnits > 50
    /\ Len(response.uniqueMapUnits) = 50
    /\ response.count > response.distinctMapUnits

\* a field that is absent, null or the empty string
Blank(v) == Nullish(v) \/ v = Str("")

\* C7: deriveFlags never raises an error, whatever the four fields hold, and
\* gives four false flags when all four are absent, null or empty.
C7_DeriveFlagsNeverFails ==
    /\ \A i \in 1..idx : ~deriveFlags(Props(i)).threw
    /\ pc = "done" => response.status = 200
    /\ \A k \in 1..Len(unique) :
          (/\ Blank(unique[k].unit.drclassdcd) /\ Blank(unique[k].unit.hydclprs)
           /\ Blank(unique[k].unit.flodfreqdcd) /\ Blank(unique[k].unit.pondfreqprs))
              => unique[k].unit.flags = NoFlags

\* the text contains the word, letter case ignored
ContainsIgnoringCase(text, word) == Includes(ToUpperCase(text), ToUpperCase(word))
TextOf(v) == IF Nullish(v) THEN "" ELSE JsString(v)

\* C8: pondingRisk is true exactly when the ponding-frequency text contains
\* "frequent", "occasional" or "common" in any letter case.
C8_PondingRiskRule ==
    \A k \in 1..Len(unique) :
        unique[k].unit.flags.pondingRisk
            = \E w \in {"frequent", "occasional", "common"} :
                  ContainsIgnoringCase(TextOf(unique[k].unit.pondfreqprs), w)

\* C10 as stated: records fold together only when their triples are equal, so
\* distinctMapUnits is the number of distinct triples.
C10_KeyInjective ==
    Succeeded =>
        response.distinctMapUnits = Cardinality({Triple(i) : i \in 1..Len(arcFeatures)})

\* every field of the triple is a string without the separator
PlainTriple(i) == \A k \in 1..3 : Triple(i)[k].t = "string" /\ ~Includes(Triple(i)[k].s, "|")

\* C10 amended: among records whose triples consist of strings without '|',
\* records with different triples are never folded into one unit, and when
\* all records are such, distinctMapUnits is the number of distinct triples.
C10_KeyInjectiveOnPlainTriples ==
    /\ \A i, j \in 1..idx :
          (PlainTriple(i) /\ PlainTriple(j) /\ Triple(i) # Triple(j))
              => Key(Props(i)) # Key(Props(j))
    /\ (Succeeded /\ \A i \in 1..Len(arcFeatures) : PlainTriple(i)) =>
          response.distinctMapUnits = Cardinality({Triple(i) : i \in 1..Len(arcFeatures)})

\* C10 witness: two plain triples that differ only in where the fields are cut
C10_Witness ==
    /\ Succeeded
    /\ Len(arcFeatures) = 2
    /\ Triple(1) = <<Str("ab"), Str("c"), Str("4")>>
    /\ Triple(2) = <<Str("a"), Str("bc"), Str("4")>>
    /\ response.distinctMapUnits = 2

====
